---- MODULE Spec2Model ----
(***************************************************************************)
(* video-offset-finder: the sliding-window correlator of hashing.py, the   *)
(* frame sampler of video.py and the three-phase controller of finder.py.  *)
(*                                                                         *)
(* Averages are exact rationals [sum, cnt] (np.mean = sum / cnt); the      *)
(* record with cnt = 0 stands for float("inf").  They are compared by      *)
(* cross-multiplication, never by record equality.                         *)
(***************************************************************************)
EXTENDS Integers, Sequences, FiniteSets, TLC

VARIABLES
    compare_type,      \* CompareType of the call
    ref_sigs,          \* cross_correlate_signatures: reference series (timestamp, signature)
    dist_sigs,         \* cross_correlate_signatures: distorted series
    offset,            \* the loop variable of `for offset in range(-n_dist + 1, n_ref)`
    best_offset,       \* hashing.py:191 / 241
    min_avg_distance,  \* hashing.py:192 / 242
    scored,            \* history: the lags whose average was computed, in order
    cpc,               \* position in the correlator: "idle", "loop", "done", "raised"
    ref_path,          \* find_offset: the reference video file
    dist_path,         \* find_offset: the distorted video file
    args,              \* find_offset: the other arguments of the call
    pc,                \* position in find_offset
    current_offset,    \* finder.py:122, in ticks of the time base
    current_distance,  \* finder.py:123
    current_fps,       \* finder.py:124
    fine_start,        \* finder.py:130
    fine_duration,     \* finder.py:131
    frame_start,       \* finder.py:173
    frame_duration,    \* finder.py:175
    passes,            \* history: the calls of compute_video_signatures, in order
    result,            \* the OffsetResult returned, {} until then
    error,             \* the exception find_offset left with, {} if none
    io,                \* history: the containers opened (av.open), in order
    returned,          \* history: the finished calls of find_offset and their outcomes
    output,            \* cli.py: the JSON record main printed, {} until then
    call,              \* extract_frames: the arguments of the call
    sampler,           \* extract_frames: its locals
    decoding,          \* extract_frames: the frames container.decode has yet to yield
    spc                \* position in extract_frames: "idle", "open", "loop", "done"

corr_vars == <<offset, scored, cpc>>

ctl_vars == <<ref_path, dist_path, args, pc, current_offset, current_distance,
              current_fps, fine_start, fine_duration, frame_start, frame_duration,
              passes, result, error, io, returned, output>>

smp_vars == <<call, sampler, decoding, spc>>

vars == <<compare_type, ref_sigs, dist_sigs, best_offset, min_avg_distance,
          corr_vars, ctl_vars, smp_vars>>

----------------------------------------------------------------------------
(* Bounds of the model *)

\* longest reference series drawn for the correlator
MaxRefLen == 3
\* longest distorted series drawn for the correlator
MaxDistLen == 2
\* bits of a perceptual hash (hash_size ** 2 in the program)
HashBits == 1
\* largest grayscale value of a SAD signature element (255 in the program)
MaxPix == 2

----------------------------------------------------------------------------
(* models.py: CompareType *)

CompareType == {"phash", "dhash", "ahash", "whash", "sad"}

\* an ImageHash: the flattened boolean matrix h.hash
ImageHashes == [1..HashBits -> BOOLEAN]

\* compute_sad_signature: a flattened array of grayscale values
SadSignatures == [1..1 -> 0..MaxPix]

Signatures(ct) == IF ct = "sad" THEN SadSignatures ELSE ImageHashes

\* series of at most k (timestamp, signature) pairs; timestamps strictly increasing
SeriesUpTo(k, ct) ==
    UNION {{[i \in 1..len |-> <<i - 1, sigs[i]>>] : sigs \in [1..len -> Signatures(ct)]}
               : len \in 0..k}

----------------------------------------------------------------------------
(* Arithmetic helpers *)

Min(a, b) == IF a <= b THEN a ELSE b
Max(a, b) == IF a >= b THEN a ELSE b
Abs(a) == IF a >= 0 THEN a ELSE -a

RECURSIVE SumSeq(_)
SumSeq(s) == IF Len(s) = 0 THEN 0 ELSE Head(s) + SumSeq(Tail(s))

\* float("inf")
InfAsZero == [sum |-> 0, cnt |-> 1]
Inf == [sum |-> 1, cnt |-> 0]
IsInf(a) == a.cnt = 0

\* a < b on averages (every finite value is below inf, inf is not below inf)
AvgLess(a, b) ==
    IF IsInf(a) THEN FALSE
    ELSE IF IsInf(b) THEN TRUE
    ELSE a.sum * b.cnt < b.sum * a.cnt

AvgEq(a, b) ==
    IF IsInf(a) \/ IsInf(b) THEN IsInf(a) /\ IsInf(b)
    ELSE a.sum * b.cnt = b.sum * a.cnt

\* np.mean over a one-dimensional array of per-frame distances
\* (of an empty array it is nan, which like inf is never below anything)
MeanAsTotal(distances) == [sum |-> SumSeq(distances), cnt |-> 1]
Mean(distances) == [sum |-> SumSeq(distances), cnt |-> Len(distances)]

\* Python's a[start:stop] on a sequence (0-based, negative indices wrap, clamped)
PySlice(a, start, stop) ==
    LET n  == Len(a)
        lo == IF start < 0 THEN Max(0, start + n) ELSE Min(start, n)
        hi == IF stop < 0 THEN Max(0, stop + n) ELSE Min(stop, n)
    IN  IF hi <= lo THEN <<>> ELSE SubSeq(a, lo + 1, hi)

----------------------------------------------------------------------------
(* hashing.py: the correlator *)

\* hash_to_array: the flattened boolean matrix as an int8 array of bits
hash_to_array(h) == [i \in 1..Len(h) |-> IF h[i] THEN 1 ELSE 0]

\* np.array([hash_to_array(h) for _, h in ref_hashes]) / np.array([sig for _, sig in ref_sigs])
Arrays(sigs, ct) ==
    [i \in 1..Len(sigs) |-> IF ct = "sad" THEN sigs[i][2] ELSE hash_to_array(sigs[i][2])]

\* np.sum(ref_slice != dist_slice, axis=1), one row
HammingRowEqual(a, b) == Cardinality({i \in 1..Len(a) : a[i] = b[i]})
HammingRow(a, b) == Cardinality({i \in 1..Len(a) : a[i] # b[i]})

\* np.sum(np.abs(ref_slice - dist_slice), axis=1), one row
SadRowSigned(a, b) == SumSeq([i \in 1..Len(a) |-> a[i] - b[i]])
SadRow(a, b) == SumSeq([i \in 1..Len(a) |-> Abs(a[i] - b[i])])

RowDistance(ct, a, b) == IF ct = "sad" THEN SadRow(a, b) ELSE HammingRow(a, b)

\* range(-n_dist + 1, n_ref): first value and (exclusive) stop
RangeStartShort(n_dist) == -n_dist + 2
RangeStart(n_dist) == -n_dist + 1
RangeStop(n_ref) == n_ref

RefStart(off) == IF off >= 0 THEN off ELSE 0
DistStart(off) == IF off >= 0 THEN 0 ELSE -off
RefEndMax(n_ref, n_dist, off) == Max(n_ref, off + n_dist)
RefEnd(n_ref, n_dist, off) == Min(n_ref, off + n_dist)
DistEndFull(n_ref, n_dist, off) == n_dist
DistEnd(n_ref, n_dist, off) ==
    DistStart(off) + (RefEnd(n_ref, n_dist, off) - RefStart(off))

\* `if ref_end <= ref_start: continue`
EmptyOverlap(n_ref, n_dist, off) == RefEnd(n_ref, n_dist, off) <= RefStart(off)

\* `if avg_distance < min_avg_distance`
BetterOrEqual(avg, cur) == ~AvgLess(cur, avg)
Better(avg, cur) == AvgLess(avg, cur)

\* the body of the loop for one lag: the state after it
\* acc = [best_offset, min_avg_distance, scored, raised]
LoopBody(ref_arrays, dist_arrays, ct, acc, off) ==
    LET n_ref  == Len(ref_arrays)
        n_dist == Len(dist_arrays)
    IN  IF EmptyOverlap(n_ref, n_dist, off) THEN acc
        ELSE
          LET ref_slice  == PySlice(ref_arrays, RefStart(off), RefEnd(n_ref, n_dist, off))
              dist_slice == PySlice(dist_arrays, DistStart(off), DistEnd(n_ref, n_dist, off))
          IN  IF Len(ref_slice) # Len(dist_slice)
              THEN [acc EXCEPT !.raised = TRUE]   \* shapes differ: numpy raises
              ELSE
                LET distances == [i \in 1..Len(ref_slice) |->
                                     RowDistance(ct, ref_slice[i], dist_slice[i])]
                    avg == Mean(distances)
                IN  IF Better(avg, acc.min_avg_distance)
                    THEN [acc EXCEPT !.best_offset = off,
                                     !.min_avg_distance = avg,
                                     !.scored = Append(@, off)]
                    ELSE [acc EXCEPT !.scored = Append(@, off)]

\* `best_offset = 0`, `min_avg_distance = float("inf")`
LoopInit == [best_offset |-> 0, min_avg_distance |-> Inf, scored |-> <<>>, raised |-> FALSE]

RECURSIVE LoopFrom(_, _, _, _, _)
LoopFrom(ref_arrays, dist_arrays, ct, acc, off) ==
    IF off >= RangeStop(Len(ref_arrays)) \/ acc.raised THEN acc
    ELSE LoopFrom(ref_arrays, dist_arrays, ct,
                  LoopBody(ref_arrays, dist_arrays, ct, acc, off), off + 1)

\* cross_correlate_signatures: the whole call, as the controller uses it
cross_correlate_signatures(rs, ds, ct) ==
    LoopFrom(Arrays(rs, ct), Arrays(ds, ct), ct, LoopInit, RangeStart(Len(ds)))

----------------------------------------------------------------------------
(* The correlator, one loop iteration per step *)

\* find_offset is not running
CtlIdle ==
    /\ ref_path = <<>>
    /\ dist_path = <<>>
    /\ args = <<>>
    /\ pc = "idle"
    /\ current_offset = 0
    /\ current_distance = Inf
    /\ current_fps = 0
    /\ fine_start = 0
    /\ fine_duration = 0
    /\ frame_start = 0
    /\ frame_duration = 0
    /\ passes = <<>>
    /\ result = {}
    /\ error = {}
    /\ io = <<>>
    /\ returned = <<>>
    /\ output = {}

\* extract_frames is not running
SmpIdle ==
    /\ call = <<>>
    /\ sampler = <<>>
    /\ decoding = <<>>
    /\ spc = "idle"

\* the call is entered with two series and an algorithm
CorrInit ==
    /\ compare_type \in {"phash", "sad"}
    /\ ref_sigs \in SeriesUpTo(MaxRefLen, compare_type)
    /\ dist_sigs \in SeriesUpTo(MaxDistLen, compare_type)
    /\ offset = RangeStart(Len(dist_sigs))
    /\ best_offset = LoopInit.best_offset
    /\ min_avg_distance = LoopInit.min_avg_distance
    /\ scored = LoopInit.scored
    /\ cpc = "loop"
    /\ CtlIdle
    /\ SmpIdle

\* one iteration of `for offset in range(-n_dist + 1, n_ref)`
CorrIter ==
    /\ cpc = "loop"
    /\ offset < RangeStop(Len(ref_sigs))
    /\ LET acc == LoopBody(Arrays(ref_sigs, compare_type), Arrays(dist_sigs, compare_type),
                           compare_type,
                           [best_offset |-> best_offset,
                            min_avg_distance |-> min_avg_distance,
                            scored |-> scored, raised |-> FALSE],
                           offset)
       IN  /\ best_offset' = acc.best_offset
           /\ min_avg_distance' = acc.min_avg_distance
           /\ scored' = acc.scored
           /\ cpc' = IF acc.raised THEN "raised" ELSE "loop"
    /\ offset' = offset + 1
    /\ UNCHANGED <<compare_type, ref_sigs, dist_sigs, ctl_vars, smp_vars>>

\* the range is exhausted: `return best_offset, min_avg_distance`
CorrReturn ==
    /\ cpc = "loop"
    /\ offset >= RangeStop(Len(ref_sigs))
    /\ cpc' = "done"
    /\ UNCHANGED <<compare_type, ref_sigs, dist_sigs, offset, best_offset,
                   min_avg_distance, scored, ctl_vars, smp_vars>>

CorrNext == CorrIter \/ CorrReturn

SpecCorr == CorrInit /\ [][CorrNext]_vars

----------------------------------------------------------------------------
(* Time and optional values *)

\* time_base of the streams is 1 / TimeBaseDen second: every PTS, timestamp, offset
\* and duration below is an integer count of these ticks
TimeBaseDen == 4

\* 0.5 second, in ticks
HalfSecond == TimeBaseDen \div 2

\* Optional[...]: None is {}, a value x is {x}
None == {}
Some(x) == {x}
Val(o) == CHOOSE x \in o : TRUE
\* Python truthiness of an Optional[float]: None and 0 are false
Truthy(o) == o # {} /\ o # {0}

\* int(x) of the rational n / d, d > 0: truncation towards zero
Trunc(n, d) == IF n >= 0 THEN n \div d ELSE -((-n) \div d)

\* round(x) of the rational n / d, d > 0: to nearest, halves to even
PyRoundTruncated(n, d) == Trunc(n, d)
PyRound(n, d) ==
    LET q == n \div d
        r == n % d
    IN  IF 2 * r < d THEN q
        ELSE IF 2 * r > d THEN q + 1
        ELSE IF q % 2 = 0 THEN q ELSE q + 1

----------------------------------------------------------------------------
(* video.py: a video file and the frame sampler *)

\* A video file is [fps, start, nframes, has_duration, gop, nopts]: nframes frames
\* at a constant rate, a keyframe every gop frames; frame i shows the scene at tick
\* start + PTS(i), as a one-pixel grayscale image of that value; the frames whose
\* index is in nopts are decoded with frame.pts = None.
FramePts(v, i) == i * (TimeBaseDen \div v.fps)
FrameImage(v, i) == <<v.start + FramePts(v, i)>>

\* get_video_info
get_video_info(v) ==
    [fps |-> v.fps,
     duration |-> IF v.has_duration THEN v.nframes * (TimeBaseDen \div v.fps) ELSE 0,
     frame_count |-> v.nframes]

\* container.decode(video=0), from frame k (0-based) on
Decode(v, k) ==
    [i \in 1..(v.nframes - k) |->
        [pts |-> IF (k + i - 1) \in v.nopts THEN None ELSE Some(FramePts(v, k + i - 1)),
         image |-> FrameImage(v, k + i - 1)]]

\* container.seek(seek_pts, stream=stream): the last keyframe at or before seek_pts
SeekIndex(v, seek_pts) ==
    LET keys == {k \in 0..(v.nframes - 1) : k % v.gop = 0 /\ FramePts(v, k) <= seek_pts}
    IN  IF keys = {} THEN 0 ELSE CHOOSE k \in keys : \A j \in keys : j <= k

\* the locals of extract_frames before the decode loop; next_sample_idx is the
\* rational next_sample_num / target_fps
SamplerInit(first) ==
    [first_pts_time |-> first, frames_in_range |-> 0, next_sample_num |-> 0,
     frames_yielded |-> 0, out |-> <<>>, stopped |-> FALSE]

\* `if frames_in_range >= next_sample_idx`
SampleDueStrict(st, target_fps) == st.frames_in_range * target_fps > st.next_sample_num
SampleDue(st, target_fps) == st.frames_in_range * target_fps >= st.next_sample_num

\* `if max_frames and frames_yielded >= max_frames`
FrameLimitExceeded(st, max_frames) ==
    Truthy(max_frames) /\ st.frames_yielded > Val(max_frames)
FrameLimitReached(st, max_frames) ==
    Truthy(max_frames) /\ st.frames_yielded >= Val(max_frames)

\* lines 109-113: the frame is yielded and counted
EmitUncounted(st, relative_time, image, source_fps) ==
    [st EXCEPT !.out = Append(@, <<relative_time, image>>),
               !.next_sample_num = @ + source_fps,
               !.frames_yielded = @ + 1]
Emit(st, relative_time, image, source_fps) ==
    [st EXCEPT !.out = Append(@, <<relative_time, image>>),
               !.next_sample_num = @ + source_fps,
               !.frames_yielded = @ + 1,
               !.frames_in_range = @ + 1]

\* one iteration of `for frame in container.decode(video=0)`
SamplerStep(st, frame, source_fps, target_fps, start_time, max_duration, max_frames) ==
    LET abs_timestamp == IF frame.pts # None THEN Val(frame.pts) ELSE 0
        first == IF st.first_pts_time = None THEN abs_timestamp ELSE Val(st.first_pts_time)
        relative_time == abs_timestamp - first
        st1 == [st EXCEPT !.first_pts_time = Some(first)]
    IN  IF relative_time < start_time THEN st1
        ELSE IF Truthy(max_duration) /\ relative_time - start_time > Val(max_duration)
             THEN [st1 EXCEPT !.stopped = TRUE]
        ELSE IF FrameLimitReached(st, max_frames)
             THEN [st1 EXCEPT !.stopped = TRUE]
        ELSE IF SampleDue(st, target_fps)
             THEN Emit(st1, relative_time, frame.image, source_fps)
             ELSE [st1 EXCEPT !.frames_in_range = @ + 1]

RECURSIVE SamplerLoop(_, _, _, _, _, _, _)
SamplerLoop(st, frames, source_fps, target_fps, start_time, max_duration, max_frames) ==
    IF frames = <<>> \/ st.stopped THEN st
    ELSE SamplerLoop(SamplerStep(st, Head(frames), source_fps, target_fps, start_time,
                                 max_duration, max_frames),
                     Tail(frames), source_fps, target_fps, start_time, max_duration,
                     max_frames)

\* `if start_time > 0.5`
Seeks(start_time) == start_time > HalfSecond

\* lines 64-70: first_pts_time when the decode loop starts
FirstPtsAtSeek(v, start_time) == None
FirstPts(v, start_time) ==
    IF Seeks(start_time) /\ v.nframes > 0 THEN Decode(v, 0)[1].pts ELSE None

\* lines 73-75: the frame the decode loop starts from
DecodeFrom(v, start_time) ==
    IF Seeks(start_time) THEN SeekIndex(v, Max(0, start_time - HalfSecond)) ELSE 0

\* extract_frames: the (relative_time, image) pairs of one pass
extract_frames(v, target_fps, start_time, max_duration, max_frames) ==
    SamplerLoop(SamplerInit(FirstPts(v, start_time)), Decode(v, DecodeFrom(v, start_time)),
                v.fps, target_fps, start_time, max_duration, max_frames).out

----------------------------------------------------------------------------
(* hashing.py: signatures of sampled frames *)

Pow2(k) == IF k = 0 THEN 1 ELSE 2 ^ k

\* compute_hash: imagehash is an opaque deterministic function of the image with
\* hash_size ** 2 bits; here the bits of the gray value above the lowest one, so
\* that images one gray level apart hash alike
HashTypes == {"phash", "dhash", "ahash", "whash"}

compute_hash(image, ct, hash_size) ==
    IF ct \in HashTypes
    THEN [k \in 1..(hash_size * hash_size) |->
             ((image[1] \div 2) \div Pow2(k - 1)) % 2 = 1]
    ELSE "ValueError"

\* compute_sad_signature: the grayscale pixels, flattened
compute_sad_signature(image) == [k \in 1..Len(image) |-> image[k]]

\* compute_video_signatures (find_offset never passes max_frames: it stays None)
compute_video_signatures(v, fps, ct, hash_size, start_time, max_duration, max_frames) ==
    LET frames == extract_frames(v, fps, start_time, max_duration, max_frames)
    IN  [i \in 1..Len(frames) |->
            <<frames[i][1],
              IF ct = "sad" THEN compute_sad_signature(frames[i][2])
              ELSE compute_hash(frames[i][2], ct, hash_size)>>]

----------------------------------------------------------------------------
(* finder.py: format_timestamp *)

Digit(d) == <<"0", "1", "2", "3", "4", "5", "6", "7", "8", "9">>[d + 1]

RECURSIVE Decimal(_)
Decimal(n) == IF n < 10 THEN Digit(n) ELSE Decimal(n \div 10) \o Digit(n % 10)

RECURSIVE ZeroPad(_, _)
ZeroPad(str, width) == IF Len(str) >= width THEN str ELSE ZeroPad("0" \o str, width)

\* f"{n:0w}": sign-aware zero padding to a minimum width
Format0(n, width) ==
    IF n >= 0 THEN ZeroPad(Decimal(n), width)
    ELSE "-" \o ZeroPad(Decimal(-n), width - 1)

\* format_timestamp, of seconds = ticks / TimeBaseDen: the four formatted fields
TimestampFields(ticks) ==
    LET total_seconds == Trunc(ticks, TimeBaseDen)
        millis == Trunc((ticks - total_seconds * TimeBaseDen) * 1000, TimeBaseDen)
        hrs  == total_seconds \div 3600
        mins == (total_seconds % 3600) \div 60
        secs == total_seconds % 60
    IN  <<Format0(hrs, 2), Format0(mins, 2), Format0(secs, 2), Format0(millis, 3)>>

\* the f-string of line 19
format_timestamp(ticks) ==
    LET f == TimestampFields(ticks)
    IN  f[1] \o ":" \o f[2] \o ":" \o f[3] \o "." \o f[4]

----------------------------------------------------------------------------
(* finder.py: find_offset *)

InfoOfDistorted == get_video_info(dist_path)
ref_info == get_video_info(ref_path)
dist_info == get_video_info(dist_path)

\* `native_fps = max(ref_info.fps, dist_info.fps)`
native_fps == Max(ref_info.fps, dist_info.fps)

\* lag / fps seconds, in ticks
LagSeconds(lag, fps) == (lag * TimeBaseDen) \div fps

\* `max_duration or dist_info.duration`
MaxDurationOr(duration) ==
    IF Truthy(args.max_duration) THEN Val(args.max_duration) ELSE duration

\* lines 79-85: the reference window of the coarse pass
ref_max_duration ==
    IF Truthy(args.max_search_offset)
    THEN Some(Min(Val(args.max_search_offset) + MaxDurationOr(dist_info.duration),
                  ref_info.duration))
    ELSE args.max_duration

\* line 99
dist_search_duration ==
    IF Truthy(args.max_search_offset) THEN args.max_search_offset ELSE None

\* `if fine_fps > coarse_fps`
RunsFineAlways == TRUE
RunsFine == args.fine_fps > args.coarse_fps

\* `if frame_accurate and native_fps > current_fps`
RunsNativeAboveFine == args.frame_accurate /\ native_fps > args.fine_fps
RunsNative == args.frame_accurate /\ native_fps > current_fps

\* `fine_duration + refine_window`, `frame_duration + frame_window`
RefWindowSymmetric(duration, window) == Some(2 * window)
RefWindow(duration, window) == Some(duration + window)

\* `frame_window = 0.5`
frame_window == HalfSecond

\* the method strings of the two return statements
MethodNativeSame(ct) == "hierarchical_" \o ct
MethodNative(ct) == "frame_accurate_" \o ct
MethodHierarchical(ct) == "hierarchical_" \o ct

Pass(phase, video, fps, start_time, max_duration) ==
    [phase |-> phase, video |-> video, fps |-> fps, start_time |-> start_time,
     max_duration |-> max_duration]

\* line 114: `coarse_offset_frames / coarse_fps + start_offset`
CoarseOffsetAccumulated(lag) ==
    current_offset + LagSeconds(lag, args.coarse_fps) + args.start_offset
CoarseOffsetUnshifted(lag) == LagSeconds(lag, args.coarse_fps)
CoarseOffset(lag) == LagSeconds(lag, args.coarse_fps) + args.start_offset

\* the containers one call of compute_video_signatures opens: get_video_info
\* (hashing.py:99), then extract_frames when its generator is first advanced
IoOfPass(video) ==
    <<[op |-> "get_video_info", video |-> video],
      [op |-> "extract_frames", video |-> video]>>

\* compute_hash raises for the first sampled frame (hashing.py:111, 38), which
\* ends compute_video_signatures and with it find_offset
Raises(sigs) == Len(sigs) > 0 /\ compare_type # "sad" /\ compare_type \notin HashTypes
PcAfterPassSkipDist(sigs, next) ==
    IF Raises(sigs) THEN "raised" ELSE IF next = "coarse_dist" THEN "coarse_corr" ELSE next
PcAfterPass(sigs, next) == IF Raises(sigs) THEN "raised" ELSE next
ErrorAfterPass(sigs) == IF Raises(sigs) THEN Some("ValueError") ELSE None

\* `compare_type.value` of the two return statements: only an enum member has it
HasValue(ct) == ct \in CompareType

\* lines 58-73: both files are opened for their VideoInfo
ReadInfos ==
    /\ pc = "entry"
    /\ io' = io \o <<[op |-> "get_video_info", video |-> "ref"],
                     [op |-> "get_video_info", video |-> "dist"]>>
    /\ pc' = "coarse_ref"
    /\ UNCHANGED <<compare_type, ref_sigs, dist_sigs, best_offset, min_avg_distance,
                   corr_vars, smp_vars, ref_path, dist_path, args, current_offset,
                   current_distance, current_fps, fine_start, fine_duration,
                   frame_start, frame_duration, passes, result, error,
                   returned, output>>

\* lines 87-96
CoarseRef ==
    /\ pc = "coarse_ref"
    /\ LET sigs == compute_video_signatures(ref_path, args.coarse_fps, compare_type,
                       args.hash_size, args.start_offset, ref_max_duration, None)
       IN  /\ ref_sigs' = IF Raises(sigs) THEN ref_sigs ELSE sigs
           /\ error' = ErrorAfterPass(sigs)
           /\ pc' = PcAfterPass(sigs, "coarse_dist")
    /\ passes' = Append(passes, Pass("coarse", "ref", args.coarse_fps, args.start_offset,
                                     ref_max_duration))
    /\ io' = io \o IoOfPass("ref")
    /\ UNCHANGED <<compare_type, dist_sigs, best_offset, min_avg_distance, corr_vars,
                   smp_vars, ref_path, dist_path, args, current_offset,
                   current_distance, current_fps, fine_start, fine_duration,
                   frame_start, frame_duration, result,
                   returned, output>>

\* lines 99-108
CoarseDist ==
    /\ pc = "coarse_dist"
    /\ LET sigs == compute_video_signatures(dist_path, args.coarse_fps, compare_type,
                       args.hash_size, 0, dist_search_duration, None)
       IN  /\ dist_sigs' = IF Raises(sigs) THEN dist_sigs ELSE sigs
           /\ error' = ErrorAfterPass(sigs)
           /\ pc' = PcAfterPass(sigs, "coarse_corr")
    /\ passes' = Append(passes, Pass("coarse", "dist", args.coarse_fps, 0,
                                     dist_search_duration))
    /\ io' = io \o IoOfPass("dist")
    /\ UNCHANGED <<compare_type, ref_sigs, best_offset, min_avg_distance, corr_vars,
                   smp_vars, ref_path, dist_path, args, current_offset,
                   current_distance, current_fps, fine_start, fine_duration,
                   frame_start, frame_duration, result,
                   returned, output>>

\* lines 111-124
CoarseCorrelate ==
    /\ pc = "coarse_corr"
    /\ LET r == cross_correlate_signatures(ref_sigs, dist_sigs, compare_type)
       IN  /\ best_offset' = r.best_offset
           /\ min_avg_distance' = r.min_avg_distance
           /\ current_offset' = CoarseOffset(r.best_offset)
           /\ current_distance' = r.min_avg_distance
    /\ current_fps' = args.coarse_fps
    /\ pc' = "phase2"
    /\ UNCHANGED <<compare_type, ref_sigs, dist_sigs, corr_vars, smp_vars, ref_path,
                   dist_path, args, fine_start, fine_duration, frame_start,
                   frame_duration, passes, result, error, io,
                   returned, output>>

\* lines 127-142
FineRef ==
    /\ pc = "phase2"
    /\ RunsFine
    /\ LET start    == Max(0, current_offset - args.refine_window)
           duration == Min(args.refine_window * 2, MaxDurationOr(dist_info.duration))
           sigs     == compute_video_signatures(ref_path, args.fine_fps, compare_type,
                           args.hash_size, start,
                           RefWindow(duration, args.refine_window), None)
       IN  /\ fine_start' = start
           /\ fine_duration' = duration
           /\ ref_sigs' = IF Raises(sigs) THEN ref_sigs ELSE sigs
           /\ error' = ErrorAfterPass(sigs)
           /\ pc' = PcAfterPass(sigs, "fine_dist")
           /\ passes' = Append(passes, Pass("fine", "ref", args.fine_fps, start,
                                            RefWindow(duration, args.refine_window)))
    /\ io' = io \o IoOfPass("ref")
    /\ UNCHANGED <<compare_type, dist_sigs, best_offset, min_avg_distance, corr_vars,
                   smp_vars, ref_path, dist_path, args, current_offset,
                   current_distance, current_fps, frame_start, frame_duration, result,
                   returned, output>>

\* line 127, condition false: phase 2 is skipped
SkipFine ==
    /\ pc = "phase2"
    /\ ~RunsFine
    /\ pc' = "phase3"
    /\ UNCHANGED <<compare_type, ref_sigs, dist_sigs, best_offset, min_avg_distance,
                   corr_vars, smp_vars, ref_path, dist_path, args, current_offset,
                   current_distance, current_fps, fine_start, fine_duration,
                   frame_start, frame_duration, passes, result, error, io,
                   returned, output>>

\* lines 144-152
FineDist ==
    /\ pc = "fine_dist"
    /\ LET sigs == compute_video_signatures(dist_path, args.fine_fps, compare_type,
                       args.hash_size, 0, Some(fine_duration), None)
       IN  /\ dist_sigs' = IF Raises(sigs) THEN dist_sigs ELSE sigs
           /\ error' = ErrorAfterPass(sigs)
           /\ pc' = PcAfterPass(sigs, "fine_corr")
    /\ passes' = Append(passes, Pass("fine", "dist", args.fine_fps, 0,
                                     Some(fine_duration)))
    /\ io' = io \o IoOfPass("dist")
    /\ UNCHANGED <<compare_type, ref_sigs, best_offset, min_avg_distance, corr_vars,
                   smp_vars, ref_path, dist_path, args, current_offset,
                   current_distance, current_fps, fine_start, fine_duration,
                   frame_start, frame_duration, result,
                   returned, output>>

\* lines 154-159
FineCorrelate ==
    /\ pc = "fine_corr"
    /\ LET r == cross_correlate_signatures(ref_sigs, dist_sigs, compare_type)
       IN  /\ best_offset' = r.best_offset
           /\ min_avg_distance' = r.min_avg_distance
           /\ current_offset' = LagSeconds(r.best_offset, args.fine_fps) + fine_start
           /\ current_distance' = r.min_avg_distance
    /\ current_fps' = args.fine_fps
    /\ pc' = "phase3"
    /\ UNCHANGED <<compare_type, ref_sigs, dist_sigs, corr_vars, smp_vars, ref_path,
                   dist_path, args, fine_start, fine_duration, frame_start,
                   frame_duration, passes, result, error, io,
                   returned, output>>

\* lines 166-186
NativeRef ==
    /\ pc = "phase3"
    /\ RunsNative
    /\ LET start    == Max(0, current_offset - frame_window)
           duration == Min(frame_window * 2, dist_info.duration)
           sigs     == compute_video_signatures(ref_path, native_fps, compare_type,
                           args.hash_size, start, RefWindow(duration, frame_window),
                           None)
       IN  /\ frame_start' = start
           /\ frame_duration' = duration
           /\ ref_sigs' = IF Raises(sigs) THEN ref_sigs ELSE sigs
           /\ error' = ErrorAfterPass(sigs)
           /\ pc' = PcAfterPass(sigs, "native_dist")
           /\ passes' = Append(passes, Pass("native", "ref", native_fps, start,
                                            RefWindow(duration, frame_window)))
    /\ io' = io \o IoOfPass("ref")
    /\ UNCHANGED <<compare_type, dist_sigs, best_offset, min_avg_distance, corr_vars,
                   smp_vars, ref_path, dist_path, args, current_offset,
                   current_distance, current_fps, fine_start, fine_duration, result,
                   returned, output>>

\* lines 188-196
NativeDist ==
    /\ pc = "native_dist"
    /\ LET sigs == compute_video_signatures(dist_path, native_fps, compare_type,
                       args.hash_size, 0, Some(frame_duration), None)
       IN  /\ dist_sigs' = IF Raises(sigs) THEN dist_sigs ELSE sigs
           /\ error' = ErrorAfterPass(sigs)
           /\ pc' = PcAfterPass(sigs, "native_corr")
    /\ passes' = Append(passes, Pass("native", "dist", native_fps, 0,
                                     Some(frame_duration)))
    /\ io' = io \o IoOfPass("dist")
    /\ UNCHANGED <<compare_type, ref_sigs, best_offset, min_avg_distance, corr_vars,
                   smp_vars, ref_path, dist_path, args, current_offset,
                   current_distance, current_fps, fine_start, fine_duration,
                   frame_start, frame_duration, result,
                   returned, output>>

\* lines 198-216
NativeReturn ==
    /\ pc = "native_corr"
    /\ LET r == cross_correlate_signatures(ref_sigs, dist_sigs, compare_type)
           native_offset_seconds == LagSeconds(r.best_offset, native_fps) + frame_start
       IN  /\ best_offset' = r.best_offset
           /\ min_avg_distance' = r.min_avg_distance
           /\ result' =
                 IF HasValue(compare_type)
                 THEN Some([offset_frames |-> PyRound(native_offset_seconds * native_fps,
                                                       TimeBaseDen),
                            offset_seconds |-> native_offset_seconds,
                            offset_timestamp |-> format_timestamp(native_offset_seconds),
                            confidence |-> r.min_avg_distance,
                            fps_used |-> native_fps,
                            method |-> MethodNative(compare_type)])
                 ELSE result
    /\ error' = IF HasValue(compare_type) THEN error ELSE Some("AttributeError")
    /\ pc' = IF HasValue(compare_type) THEN "done" ELSE "raised"
    /\ UNCHANGED <<compare_type, ref_sigs, dist_sigs, corr_vars, smp_vars, ref_path,
                   dist_path, args, current_offset, current_distance, current_fps,
                   fine_start, fine_duration, frame_start, frame_duration, passes, io,
                   returned, output>>

\* line 166, condition false: lines 218-225
HierarchicalReturn ==
    /\ pc = "phase3"
    /\ ~RunsNative
    /\ result' =
          IF HasValue(compare_type)
          THEN Some([offset_frames |-> PyRound(current_offset * ref_info.fps, TimeBaseDen),
                     offset_seconds |-> current_offset,
                     offset_timestamp |-> format_timestamp(current_offset),
                     confidence |-> current_distance,
                     fps_used |-> current_fps,
                     method |-> MethodHierarchical(compare_type)])
          ELSE result
    /\ error' = IF HasValue(compare_type) THEN error ELSE Some("AttributeError")
    /\ pc' = IF HasValue(compare_type) THEN "done" ELSE "raised"
    /\ UNCHANGED <<compare_type, ref_sigs, dist_sigs, best_offset, min_avg_distance,
                   corr_vars, smp_vars, ref_path, dist_path, args, current_offset,
                   current_distance, current_fps, fine_start, fine_duration,
                   frame_start, frame_duration, passes, io,
                   returned, output>>

----------------------------------------------------------------------------
(* cli.py: main *)

\* lines 137-158: the record main prints.  "date" and "compute_time" are clock
\* readings and are left out.
JsonOutput(r) ==
    [reference |-> ref_path,
     distorted |-> dist_path,
     offset_frames |-> r.offset_frames,
     offset_seconds |-> r.offset_seconds,
     confidence |-> r.confidence,
     fps_used |-> r.fps_used,
     method |-> r.method,
     settings |-> [compare_type |-> compare_type,
                   hash_size |-> args.hash_size,
                   coarse_fps |-> args.coarse_fps,
                   fine_fps |-> args.fine_fps,
                   start_offset |-> args.start_offset,
                   max_search_offset |-> args.max_search_offset,
                   max_duration |-> args.max_duration,
                   refine_window |-> args.refine_window]]

\* main, after its call of find_offset returned; main passes no frame_accurate, so
\* the call ran with the default True
PrintJson ==
    /\ pc = "done"
    /\ args.frame_accurate
    /\ output' = Some(JsonOutput(Val(result)))
    /\ pc' = "printed"
    /\ UNCHANGED <<compare_type, ref_sigs, dist_sigs, best_offset, min_avg_distance,
                   corr_vars, smp_vars, ref_path, dist_path, args, current_offset,
                   current_distance, current_fps, fine_start, fine_duration,
                   frame_start, frame_duration, passes, result, error, io, returned>>

----------------------------------------------------------------------------
(* The calls of find_offset that are explored *)

\* longest video, in seconds
MaxSeconds == 3

NativeRates == {2, 4}

\* the scene second at which a video starts
Starts == {0, 1}

\* reference files: full length, duration known
RefVideos ==
    {[fps |-> f, start |-> st * TimeBaseDen, nframes |-> MaxSeconds * f,
      has_duration |-> TRUE, gop |-> f, nopts |-> {}] : f \in NativeRates, st \in Starts}

\* distorted files: full length or one second shorter, or without a stream duration
DistVideos ==
    {[fps |-> f, start |-> st * TimeBaseDen, nframes |-> sec * f,
      has_duration |-> TRUE, gop |-> f, nopts |-> {}] :
        f \in NativeRates, st \in Starts, sec \in (MaxSeconds - 1)..MaxSeconds}
    \cup
    {[fps |-> f, start |-> st * TimeBaseDen, nframes |-> MaxSeconds * f,
      has_duration |-> FALSE, gop |-> f, nopts |-> {}] : f \in NativeRates, st \in Starts}

Arguments ==
    [hash_size : {2},
     coarse_fps : {1, 2},
     fine_fps : {1, 2, 4},
     start_offset : {0, TimeBaseDen},
     max_search_offset : {None, Some(0), Some(2 * TimeBaseDen)},
     max_duration : {None, Some(TimeBaseDen)},
     refine_window : {TimeBaseDen},
     frame_accurate : BOOLEAN]

\* an algorithm identifier that is no member of CompareType
Unsupported == "md5"

\* find_offset is entered
Init ==
    /\ compare_type \in {"phash", "sad", Unsupported}
    /\ ref_path \in RefVideos
    /\ dist_path \in DistVideos
    /\ args \in Arguments
    /\ pc = "entry"
    /\ ref_sigs = <<>>
    /\ dist_sigs = <<>>
    /\ best_offset = 0
    /\ min_avg_distance = Inf
    /\ offset = 0
    /\ scored = <<>>
    /\ cpc = "idle"
    /\ current_offset = 0
    /\ current_distance = Inf
    /\ current_fps = 0
    /\ fine_start = 0
    /\ fine_duration = 0
    /\ frame_start = 0
    /\ frame_duration = 0
    /\ passes = <<>>
    /\ result = {}
    /\ error = {}
    /\ io = <<>>
    /\ returned = <<>>
    /\ output = {}
    /\ SmpIdle

Next ==
    \/ ReadInfos
    \/ CoarseRef
    \/ CoarseDist
    \/ CoarseCorrelate
    \/ FineRef
    \/ SkipFine
    \/ FineDist
    \/ FineCorrelate
    \/ NativeRef
    \/ NativeDist
    \/ NativeReturn
    \/ HierarchicalReturn
    \/ PrintJson

Spec == Init /\ [][Next]_vars

----------------------------------------------------------------------------
(* The calls of the offset tests: two clips of one scene *)

\* length of the scene, in seconds
SceneSeconds == 10

\* the seconds cut from the start of an offset clip (offset_2s, offset_5s)
Shifts == {2, 5}

\* the clip that shows the scene from second n to its end
Clip(n, f) ==
    [fps |-> f, start |-> n * TimeBaseDen, nframes |-> (SceneSeconds - n) * f,
     has_duration |-> TRUE, gop |-> f, nopts |-> {}]

\* the same file, its stream carrying no duration
WithoutDuration(v) == [v EXCEPT !.has_duration = FALSE]

\* (reference, distorted): the distorted clip starts n seconds into the reference
\* (true offset n), or the two swapped (true offset -n), then also with a distorted
\* file that reports no duration
ClipPairs ==
    {<<Clip(0, f), Clip(n, f)>> : f \in NativeRates, n \in Shifts}
    \cup {<<Clip(n, f), Clip(0, f)>> : f \in NativeRates, n \in Shifts}
    \cup {<<Clip(n, f), WithoutDuration(Clip(0, f))>> : f \in NativeRates, n \in Shifts}

OffsetArguments ==
    [hash_size : {3},
     coarse_fps : {1},
     fine_fps : {1, 2, 4},
     start_offset : {0, 1, HalfSecond, TimeBaseDen, 3 * TimeBaseDen,
                     SceneSeconds * TimeBaseDen},
     max_search_offset : {None},
     max_duration : {None},
     refine_window : {2 * TimeBaseDen},
     frame_accurate : BOOLEAN]

\* find_offset is entered on a pair of clips
InitOffsets ==
    /\ compare_type \in {"phash", "sad"}
    /\ \E pair \in ClipPairs :
          /\ ref_path = pair[1]
          /\ dist_path = pair[2]
    /\ args \in OffsetArguments
    /\ pc = "entry"
    /\ ref_sigs = <<>>
    /\ dist_sigs = <<>>
    /\ best_offset = 0
    /\ min_avg_distance = Inf
    /\ offset = 0
    /\ scored = <<>>
    /\ cpc = "idle"
    /\ current_offset = 0
    /\ current_distance = Inf
    /\ current_fps = 0
    /\ fine_start = 0
    /\ fine_duration = 0
    /\ frame_start = 0
    /\ frame_duration = 0
    /\ passes = <<>>
    /\ result = {}
    /\ error = {}
    /\ io = <<>>
    /\ returned = <<>>
    /\ output = {}
    /\ SmpIdle

SpecOffsets == InitOffsets /\ [][Next]_vars

----------------------------------------------------------------------------
(* Several calls of find_offset in one process *)

\* calls made one after the other
MaxCalls == 3

CallRefVideos == {v \in RefVideos : v.fps = 4 /\ v.start = 0}

CallDistVideos ==
    {v \in DistVideos : /\ v.fps = 2
                        /\ v.start = TimeBaseDen
                        /\ v.has_duration
                        /\ v.nframes = MaxSeconds * v.fps}

CallArguments ==
    {a \in Arguments : /\ a.coarse_fps = 1
                       /\ a.fine_fps \in {1, 2}
                       /\ a.max_search_offset = None
                       /\ a.max_duration = None}

\* what a finished call was given and what it left with
Outcome ==
    [ref_path |-> ref_path, dist_path |-> dist_path, compare_type |-> compare_type,
     args |-> args, result |-> result, error |-> error]

\* find_offset is called again.  The locals of the new call are unbound in Python;
\* here they keep what the previous call left in them, so that a read before the
\* new call's own assignment would show in the outcome.
Reenter ==
    /\ pc \in {"done", "raised"}
    /\ Len(returned) < MaxCalls - 1
    /\ returned' = Append(returned, Outcome)
    /\ ref_path' \in CallRefVideos
    /\ dist_path' \in CallDistVideos
    /\ args' \in CallArguments
    /\ pc' = "entry"
    /\ result' = {}
    /\ error' = {}
    /\ UNCHANGED <<compare_type, ref_sigs, dist_sigs, best_offset, min_avg_distance,
                   corr_vars, smp_vars, current_offset, current_distance, current_fps,
                   fine_start, fine_duration, frame_start, frame_duration, passes, io,
                   output>>

InitCalls ==
    /\ compare_type = "phash"
    /\ ref_path \in CallRefVideos
    /\ dist_path \in CallDistVideos
    /\ args \in CallArguments
    /\ pc = "entry"
    /\ ref_sigs = <<>>
    /\ dist_sigs = <<>>
    /\ best_offset = 0
    /\ min_avg_distance = Inf
    /\ offset = 0
    /\ scored = <<>>
    /\ cpc = "idle"
    /\ current_offset = 0
    /\ current_distance = Inf
    /\ current_fps = 0
    /\ fine_start = 0
    /\ fine_duration = 0
    /\ frame_start = 0
    /\ frame_duration = 0
    /\ passes = <<>>
    /\ result = {}
    /\ error = {}
    /\ io = <<>>
    /\ returned = <<>>
    /\ output = {}
    /\ SmpIdle

CallsNext ==
    \/ Next
    \/ Reenter

SpecCalls == InitCalls /\ [][CallsNext]_vars

----------------------------------------------------------------------------
(* extract_frames, one decoded frame per step *)

\* the correlator is not running
CorrIdle ==
    /\ compare_type = "phash"
    /\ ref_sigs = <<>>
    /\ dist_sigs = <<>>
    /\ best_offset = 0
    /\ min_avg_distance = Inf
    /\ offset = 0
    /\ scored = <<>>
    /\ cpc = "idle"

\* the frames decoded without a PTS: none, the first, the second and third, or all
NoPts == {{}, {0}, {1, 2}, 0..(MaxSeconds * TimeBaseDen)}

\* the files sampled: empty, or up to MaxSeconds long; every frame a keyframe, or
\* one keyframe per second
SampledVideos ==
    {[fps |-> f, start |-> 0, nframes |-> sec * f, has_duration |-> TRUE,
      gop |-> IF intra THEN 1 ELSE f, nopts |-> np] :
        f \in NativeRates, sec \in {0, MaxSeconds - 1, MaxSeconds}, intra \in BOOLEAN,
        np \in NoPts}

\* the calls of extract_frames explored: times in ticks
SampleCalls ==
    [path : SampledVideos,
     target_fps : {1, 2, 3, 4, 8},
     start_time : {0, HalfSecond, HalfSecond + 1, TimeBaseDen + 1},
     max_duration : {None, Some(0), Some(1), Some(3), Some(TimeBaseDen)},
     max_frames : {None, Some(0), Some(1), Some(3)}]

SmpInit ==
    /\ call \in SampleCalls
    /\ sampler = SamplerInit(None)
    /\ decoding = <<>>
    /\ spc = "open"
    /\ CorrIdle
    /\ CtlIdle

\* lines 52-79: the container is opened and, for start_time > 0.5, sought
SmpOpen ==
    /\ spc = "open"
    /\ sampler' = SamplerInit(FirstPts(call.path, call.start_time))
    /\ decoding' = Decode(call.path, DecodeFrom(call.path, call.start_time))
    /\ spc' = "loop"
    /\ UNCHANGED <<compare_type, ref_sigs, dist_sigs, best_offset, min_avg_distance,
                   corr_vars, ctl_vars, call>>

\* one iteration of `for frame in container.decode(video=0)`
SmpFrame ==
    /\ spc = "loop"
    /\ decoding # <<>>
    /\ ~sampler.stopped
    /\ sampler' = SamplerStep(sampler, Head(decoding), call.path.fps, call.target_fps,
                              call.start_time, call.max_duration, call.max_frames)
    /\ decoding' = Tail(decoding)
    /\ UNCHANGED <<compare_type, ref_sigs, dist_sigs, best_offset, min_avg_distance,
                   corr_vars, ctl_vars, call, spc>>

\* the generator is exhausted, or left by a `break`
SmpEnd ==
    /\ spc = "loop"
    /\ decoding = <<>> \/ sampler.stopped
    /\ spc' = "done"
    /\ UNCHANGED <<compare_type, ref_sigs, dist_sigs, best_offset, min_avg_distance,
                   corr_vars, ctl_vars, call, sampler, decoding>>

SmpNext == SmpOpen \/ SmpFrame \/ SmpEnd

SpecSmp == SmpInit /\ [][SmpNext]_vars

----------------------------------------------------------------------------
(* The correlator's contract, stated on the series themselves *)

RefLen == Len(ref_sigs)
DistLen == Len(dist_sigs)

\* every integer lag of [-(m-1), n-1]
LagRange == (-(DistLen - 1))..(RefLen - 1)

\* d(a, b) of the data model: Hamming distance of two hashes, L1 distance of two pixel arrays
SigDistance(a, b) ==
    IF compare_type = "sad"
    THEN SumSeq([k \in 1..Len(a) |-> Abs(a[k] - b[k])])
    ELSE Cardinality({k \in 1..Len(a) : a[k] # b[k]})

\* dist[i] and ref[i + lag], 0-based
DistSig(i) == dist_sigs[i + 1][2]
RefSig(j) == ref_sigs[j + 1][2]

\* the indices i of the distorted series that lag L pairs with a reference element
Overlap(L) == {i \in 0..(DistLen - 1) : i + L \in 0..(RefLen - 1)}

\* the average over the overlap of d(dist[i], ref[i + L])
LagAverage(L) ==
    [sum |-> SumSeq([k \in 1..DistLen |->
                        IF k - 1 \in Overlap(L) THEN SigDistance(DistSig(k - 1), RefSig(k - 1 + L))
                        ELSE 0]),
     cnt |-> Cardinality(Overlap(L))]

\* lag L aligns the two series without any difference
FullMatch(L) == \A i \in Overlap(L) : SigDistance(DistSig(i), RefSig(i + L)) = 0

\* no two elements of the reference series carry the same signature
RefPairwiseDistinct ==
    \A i, j \in 0..(RefLen - 1) : i # j => SigDistance(RefSig(i), RefSig(j)) > 0

\* the distorted series is the reference series from element k on, k = n - m
DistIsSuffixOfRef ==
    /\ DistLen >= 1
    /\ DistLen <= RefLen
    /\ \A i \in 0..(DistLen - 1) : DistSig(i) = RefSig(i + RefLen - DistLen)

IsZero(a) == a.cnt > 0 /\ a.sum = 0

\* C1: for non-empty series the returned distance is the minimum over all lags of
\* [-(m-1), n-1] of the overlap average of d(dist[i], ref[i+lag]), and the returned lag
\* attains it (dist[i] is paired with ref[i+lag], so a positive lag is a delay)
C1_MinimumAverage ==
    (cpc = "done" /\ RefLen >= 1 /\ DistLen >= 1) =>
        /\ best_offset \in LagRange
        /\ AvgEq(min_avg_distance, LagAverage(best_offset))
        /\ \A L \in LagRange : ~AvgLess(LagAverage(L), min_avg_distance)

C1_Witness ==
    /\ cpc = "done"
    /\ DistLen >= 2
    /\ best_offset > 0
    /\ ~IsZero(min_avg_distance)
    /\ \E L \in LagRange : AvgLess(min_avg_distance, LagAverage(L))

\* C2: at every point of the scan the current best is the smallest of the lags scanned
\* so far that have the minimum average: an equal average met later never replaces it
C2_FirstMinimumKept ==
    (cpc \in {"loop", "done"} /\ RefLen >= 1 /\ DistLen >= 1) =>
        \A L \in LagRange :
            L < offset =>
                /\ best_offset < offset
                /\ AvgEq(min_avg_distance, LagAverage(best_offset))
                /\ \/ AvgLess(min_avg_distance, LagAverage(L))
                   \/ (AvgEq(min_avg_distance, LagAverage(L)) /\ best_offset <= L)

C2_Witness ==
    /\ cpc = "done"
    /\ \E L \in LagRange : L > best_offset /\ AvgEq(min_avg_distance, LagAverage(L))
    /\ \E L \in LagRange : AvgLess(min_avg_distance, LagAverage(L))

\* the lags of [-(m-1), n-1] in ascending order
AscendingLags == [k \in 1..(RefLen + DistLen - 1) |-> k - DistLen]

\* C3 as stated: for any n >= 0 and m >= 0 exactly n + m - 1 lags are scored
C3_Original ==
    cpc = "done" => (Len(scored) = RefLen + DistLen - 1 /\ scored = AscendingLags)

\* C3: for n >= 1 and m >= 1 the scored lags are exactly the n + m - 1 lags of
\* [-(m-1), n-1], each once; when either series is empty no lag is scored
C3_ScoredLags ==
    cpc = "done" =>
        IF RefLen >= 1 /\ DistLen >= 1
        THEN Len(scored) = RefLen + DistLen - 1 /\ scored = AscendingLags
        ELSE scored = <<>>

C3_Witness ==
    /\ cpc = "done"
    /\ RefLen >= 2
    /\ DistLen >= 2
    /\ Len(scored) = RefLen + DistLen - 1

\* C4 as stated: every non-empty series against itself gives lag 0 and distance 0
C4_Original ==
    (cpc = "done" /\ RefLen >= 1 /\ dist_sigs = ref_sigs) =>
        (best_offset = 0 /\ IsZero(min_avg_distance))

\* C4: a non-empty series against itself gives distance 0 and the smallest lag at
\* which its overlap with itself is identical, which is <= 0, and is 0 when its
\* signatures are pairwise different
C4_SelfCorrelation ==
    (cpc = "done" /\ RefLen >= 1 /\ dist_sigs = ref_sigs) =>
        /\ IsZero(min_avg_distance)
        /\ best_offset <= 0
        /\ FullMatch(best_offset)
        /\ \A L \in LagRange : L < best_offset => ~FullMatch(L)
        /\ RefPairwiseDistinct => best_offset = 0

C4_Witness ==
    /\ cpc = "done"
    /\ RefLen >= 2
    /\ dist_sigs = ref_sigs
    /\ RefPairwiseDistinct
    /\ best_offset = 0
    /\ IsZero(min_avg_distance)

\* C5 as stated: S against S[k:] gives lag k for every S
C5_Original ==
    (cpc = "done" /\ DistIsSuffixOfRef) => best_offset = RefLen - DistLen

\* C5: S against S[k:] gives distance 0 and the smallest lag at which S[k:] matches
\* S over the whole overlap, which is <= k, and is k when the signatures of S are
\* pairwise different
C5_SubSeries ==
    (cpc = "done" /\ DistIsSuffixOfRef) =>
        /\ IsZero(min_avg_distance)
        /\ best_offset <= RefLen - DistLen
        /\ FullMatch(best_offset)
        /\ \A L \in LagRange : L < best_offset => ~FullMatch(L)
        /\ RefPairwiseDistinct => best_offset = RefLen - DistLen

C5_Witness ==
    /\ cpc = "done"
    /\ DistIsSuffixOfRef
    /\ RefPairwiseDistinct
    /\ DistLen >= 2
    /\ RefLen > DistLen
    /\ best_offset = RefLen - DistLen

\* C6: with an empty reference or distorted series no lag is ever scored, nothing
\* raises, and the result stays lag 0 with distance infinity
C6_EmptySeries ==
    (RefLen = 0 \/ DistLen = 0) =>
        /\ cpc # "raised"
        /\ scored = <<>>
        /\ best_offset = 0
        /\ IsInf(min_avg_distance)

C6_Witness ==
    /\ cpc = "done"
    /\ RefLen = 0
    /\ DistLen >= 2
    /\ offset = 0
    /\ best_offset = 0
    /\ IsInf(min_avg_distance)

----------------------------------------------------------------------------
(* The controller's phases *)

\* the phases that sampled a video so far, and the one that sampled last
PhasesRun == {passes[i].phase : i \in DOMAIN passes}
TerminalPhase == passes[Len(passes)].phase
Returned == Val(result)

\* the passes of one phase, in order
PassesOf(phase) == SelectSeq(passes, LAMBDA p : p.phase = phase)

TimestampsWithin(sigs, lo, hi) ==
    \A i \in DOMAIN sigs : lo <= sigs[i][1] /\ sigs[i][1] <= hi

\* the duration the distorted video is reported to have: nframes / fps, or 0
\* when the stream carries no duration
ReportedDistDuration ==
    IF dist_path.has_duration
    THEN (dist_path.nframes * TimeBaseDen) \div dist_path.fps
    ELSE 0

\* D of the amended C10: max_duration when given and not 0, else the reported duration
FineCap ==
    IF args.max_duration # {} /\ args.max_duration # {0}
    THEN Val(args.max_duration)
    ELSE ReportedDistDuration

----------------------------------------------------------------------------
(* The controller's search parameters *)

C14_Original ==
    (pc = "coarse_corr" /\ args.max_search_offset # None) =>
        LET mso == Val(args.max_search_offset)
            cap == Min(mso + FineCap, get_video_info(ref_path).duration)
        IN  /\ TimestampsWithin(dist_sigs, 0, mso)
            /\ TimestampsWithin(ref_sigs, args.start_offset, args.start_offset + cap)

\* C20 as stated: a call with an unsupported algorithm identifier opens no container
\* and, once past its entry, has failed with ValueError
C20_Original ==
    compare_type \notin CompareType =>
        /\ io = <<>>
        /\ pc # "entry" => (pc = "raised" /\ error = Some("ValueError"))

----------------------------------------------------------------------------
(* Offsets recovered from two clips of one scene *)

\* the distorted clip starts t seconds before the reference (true offset -t)
DistStartsBefore(t) ==
    ref_path = Clip(t, ref_path.fps) /\ dist_path = Clip(0, dist_path.fps)

\* the distorted clip starts t seconds into the reference (true offset t)
DistStartsAfter(t) ==
    ref_path = Clip(0, ref_path.fps) /\ dist_path = Clip(t, dist_path.fps)

\* no pass asks for more frames per second than the clips have
WithinNativeRate ==
    /\ args.coarse_fps <= Min(ref_path.fps, dist_path.fps)
    /\ args.fine_fps <= Min(ref_path.fps, dist_path.fps)

\* start_offset is a whole number of coarse sampling periods
StartOnCoarseGrid == (args.start_offset * args.coarse_fps) % TimeBaseDen = 0

\* C11 as stated: with true offset -T (T = 2 and T = 5, refine_window = 2 s,
\* coarse_fps = 1) the returned offset_seconds is negative and within 1.0 s of -T,
\* when the run ends after Coarse and when it ends after Fine
C11_Original ==
    \A t \in Shifts :
        (/\ pc = "done"
         /\ DistStartsBefore(t)
         /\ WithinNativeRate
         /\ args.start_offset = 0
         /\ ~args.frame_accurate)
        => /\ Returned.offset_seconds < 0
           /\ Abs(Returned.offset_seconds + t * TimeBaseDen) < TimeBaseDen

----------------------------------------------------------------------------
(* The frame sampler's contract *)

\* the frames are emitted with strictly increasing timestamps
StrictlyIncreasing(out) ==
    \A i \in 1..(Len(out) - 1) : out[i][1] < out[i + 1][1]

\* every frame of the file carries a PTS
AllPts == call.path.nopts \cap (0..(call.path.nframes - 1)) = {}

\* the window [start_time, start_time + max_duration] ends before the file does
WindowInside ==
    /\ Truthy(call.max_duration)
    /\ call.path.nframes > 0
    /\ call.start_time + Val(call.max_duration) <= FramePts(call.path, call.path.nframes - 1)

\* the frames of the file whose PTS lies in the window (max_duration 0 or None: no end)
InWindow ==
    {i \in 0..(call.path.nframes - 1) :
        /\ FramePts(call.path, i) >= call.start_time
        /\ Truthy(call.max_duration) =>
              FramePts(call.path, i) - call.start_time <= Val(call.max_duration)}

\* |count - D * f| <= 1, D in ticks
CountWithinOne(count, d, f) == Abs(count * TimeBaseDen - d * f) <= TimeBaseDen

C16_Original ==
    spc \in {"loop", "done"} => StrictlyIncreasing(sampler.out)

\* C17: with target_fps > source_fps every decoded frame of the active range is
\* emitted, once: the accumulator never exceeds the count of frames in range, as
\* many frames are emitted as were in range, no image twice, and when every frame
\* carries a PTS these are the frames of the window, up to max_frames of them
C17_EveryFrame ==
    (spc \in {"loop", "done"} /\ call.target_fps > call.path.fps) =>
        /\ sampler.next_sample_num <= sampler.frames_in_range * call.target_fps
        /\ sampler.frames_yielded = sampler.frames_in_range
        /\ Len(sampler.out) = sampler.frames_in_range
        /\ \A i, j \in DOMAIN sampler.out : i # j => sampler.out[i][2] # sampler.out[j][2]
        /\ (spc = "done" /\ AllPts) =>
              /\ Len(sampler.out) =
                    IF Truthy(call.max_frames)
                    THEN Min(Val(call.max_frames), Cardinality(InWindow))
                    ELSE Cardinality(InWindow)
              /\ \A j \in DOMAIN sampler.out :
                    LET i == CHOOSE m \in InWindow : Cardinality({k \in InWindow : k < m}) = j - 1
                    IN  /\ sampler.out[j][1] = FramePts(call.path, i)
                        /\ sampler.out[j][2] = FrameImage(call.path, i)

C17_Witness ==
    /\ spc = "done"
    /\ call.target_fps > call.path.fps
    /\ AllPts
    /\ Seeks(call.start_time)
    /\ WindowInside
    /\ call.max_frames = None
    /\ Len(sampler.out) >= 3

\* C18: with max_frames = k > 0 a pass never emits more than k frames, and emits k
\* when the same pass without max_frames emits at least k (and all of them
\* otherwise); compute_video_signatures returns one signature per emitted frame
C18_FrameLimit ==
    (spc \in {"loop", "done"} /\ Truthy(call.max_frames)) =>
        /\ Len(sampler.out) <= Val(call.max_frames)
        /\ spc = "done" =>
              /\ Len(sampler.out) =
                    Min(Val(call.max_frames),
                        Len(extract_frames(call.path, call.target_fps, call.start_time,
                                           call.max_duration, None)))
              /\ Len(compute_video_signatures(call.path, call.target_fps, "phash", 2,
                                              call.start_time, call.max_duration,
                                              call.max_frames)) = Len(sampler.out)

C18_Witness ==
    /\ spc = "done"
    /\ call.max_frames = Some(3)
    /\ Len(sampler.out) = 3
    /\ Len(extract_frames(call.path, call.target_fps, call.start_time,
                          call.max_duration, None)) > 3

\* C19 as stated: every emitted timestamp t has t >= start_time, and
\* t - start_time <= max_duration whenever max_duration is not None
C19_Original ==
    spc \in {"loop", "done"} =>
        \A j \in DOMAIN sampler.out :
            /\ sampler.out[j][1] >= call.start_time
            /\ call.max_duration # None =>
                  sampler.out[j][1] - call.start_time <= Val(call.max_duration)

----------------------------------------------------------------------------
(* Calls are independent of each other *)

\* the finished call i was given what the current call was given
SameInputs(i) ==
    /\ returned[i].ref_path = ref_path
    /\ returned[i].dist_path = dist_path
    /\ returned[i].compare_type = compare_type
    /\ returned[i].args = args

----------------------------------------------------------------------------
(* The record printed by the command line *)

ResultFields ==
    {"offset_frames", "offset_seconds", "offset_timestamp", "confidence", "fps_used",
     "method"}

\* the printed record has field f with the value the OffsetResult has
Copied(f) == f \in DOMAIN Val(output) /\ Val(output)[f] = Val(result)[f]

\* C22 as stated: the printed record has the fields offset_frames, offset_seconds,
\* offset_timestamp, confidence, fps_used and method, each with the value of the
\* OffsetResult that find_offset returned
C22_Original ==
    pc = "printed" => \A f \in ResultFields : Copied(f)

----------------------------------------------------------------------------
(* The formatted timestamp *)

\* the strings of exactly width decimal digits
DigitStrings(width) == {ZeroPad(Decimal(k), width) : k \in 0..(10 ^ width - 1)}

TwoDigits == DigitStrings(2)
ThreeDigits == DigitStrings(3)

\* C23 as stated: for every returned offset_seconds, negative ones included,
\* offset_timestamp has 12 characters, HH:MM:SS.mmm, with digits in the four fields
C23_Original ==
    pc = "done" =>
        LET f == TimestampFields(Returned.offset_seconds)
        IN  /\ Returned.offset_timestamp =
                  f[1] \o ":" \o f[2] \o ":" \o f[3] \o "." \o f[4]
            /\ Len(Returned.offset_timestamp) = 12
            /\ f[1] \in TwoDigits
            /\ f[2] \in TwoDigits
            /\ f[3] \in TwoDigits
            /\ f[4] \in ThreeDigits

----------------------------------------------------------------------------
(* The order of the phases *)

\* the positions of find_offset in program order; a call that raised is past them
PcOrder ==
    <<"entry", "coarse_ref", "coarse_dist", "coarse_corr", "phase2", "fine_dist",
      "fine_corr", "phase3", "native_dist", "native_corr", "done", "printed">>

PcRank(p) ==
    IF p = "raised" THEN Len(PcOrder) + 1
    ELSE CHOOSE k \in DOMAIN PcOrder : PcOrder[k] = p

\* (phase, video) of the passes so far
PassLabels == [k \in DOMAIN passes |-> <<passes[k].phase, passes[k].video>>]

CoarsePasses == <<(<<"coarse", "ref">>), (<<"coarse", "dist">>)>>
FinePasses == <<(<<"fine", "ref">>), (<<"fine", "dist">>)>>
NativePasses == <<(<<"native", "ref">>), (<<"native", "dist">>)>>

PhaseOrders ==
    {CoarsePasses, CoarsePasses \o FinePasses, CoarsePasses \o NativePasses,
     CoarsePasses \o FinePasses \o NativePasses}

IsPrefix(s, t) == Len(s) <= Len(t) /\ s = SubSeq(t, 1, Len(s))

LastTwoPasses == SubSeq(PassLabels, Len(passes) - 1, Len(passes))

\* the passes run in the order Coarse, Fine, Native, reference before distorted; a
\* correlation finds both passes of its phase done; a window is derived from the
\* offset of the phase before; a finished run sampled Coarse once and Fine and
\* Native at most once
PhasesInOrder ==
    /\ \E o \in PhaseOrders : IsPrefix(PassLabels, o)
    /\ pc \in {"coarse_corr", "phase2", "phase3", "done"} => IsPrefix(CoarsePasses, PassLabels)
    /\ pc = "coarse_corr" => PassLabels = CoarsePasses
    /\ pc = "fine_corr" => (Len(passes) = 4 /\ LastTwoPasses = FinePasses)
    /\ pc = "native_corr" => (Len(passes) >= 4 /\ LastTwoPasses = NativePasses)
    /\ pc \in {"fine_dist", "fine_corr"} =>
          /\ current_fps = args.coarse_fps
          /\ current_offset = CoarseOffset(best_offset)
          /\ fine_start = Max(0, current_offset - args.refine_window)
    /\ pc \in {"native_dist", "native_corr"} =>
          /\ frame_start = Max(0, current_offset - frame_window)
          /\ "fine" \in PhasesRun =>
                /\ current_fps = args.fine_fps
                /\ current_offset = LagSeconds(best_offset, args.fine_fps) + fine_start
    /\ pc = "done" => PassLabels \in PhaseOrders

----------------------------------------------------------------------------
(* The frame count of the result *)

\* frames is the whole number nearest to seconds * fps (seconds in ticks), the even
\* one of the two when seconds * fps lies half-way, as round() chooses
NearestFrame(frames, seconds, fps) ==
    LET twice == 2 * Abs(frames * TimeBaseDen - seconds * fps)
    IN  /\ twice <= TimeBaseDen
        /\ twice = TimeBaseDen => frames % 2 = 0

----------------------------------------------------------------------------
(* Time zero of a pass that seeks *)

\* every emitted timestamp is the time of its frame after the first frame of the
\* file (an image shows the scene tick of its frame)
RelativeToFirstFrame ==
    \A k \in DOMAIN sampler.out :
        sampler.out[k][1] = sampler.out[k][2][1] - call.path.start

\* C26 as stated: when extract_frames seeks, first_pts_time is fixed before the decode
\* loop starts and every emitted timestamp is relative to the first frame of the
\* file, also when that first frame carries no PTS
C26_Original ==
    (spc \in {"loop", "done"} /\ Seeks(call.start_time) /\ call.path.nframes > 0) =>
        /\ sampler.first_pts_time # None
        /\ RelativeToFirstFrame

----------------------------------------------------------------------------
(* The overlap of the two series at one lag *)

\* C27: with n >= 1 reference and m >= 1 distorted signatures every lag of the loop
\* lies in [-(m-1), n-1], its overlap is not empty, the two slices have the same
\* length min(n, lag + m) - max(0, lag), and both lie inside their series
C27_Overlap ==
    /\ cpc # "raised"
    /\ (cpc = "loop" /\ RefLen >= 1 /\ DistLen >= 1 /\ offset < RangeStop(RefLen)) =>
          LET ref_arrays  == Arrays(ref_sigs, compare_type)
              dist_arrays == Arrays(dist_sigs, compare_type)
              ref_start   == RefStart(offset)
              ref_end     == RefEnd(RefLen, DistLen, offset)
              dist_start  == DistStart(offset)
              dist_end    == DistEnd(RefLen, DistLen, offset)
              length      == Min(RefLen, offset + DistLen) - Max(0, offset)
          IN  /\ offset >= -(DistLen - 1)
              /\ offset <= RefLen - 1
              /\ ~EmptyOverlap(RefLen, DistLen, offset)
              /\ length >= 1
              /\ Len(PySlice(ref_arrays, ref_start, ref_end)) = length
              /\ Len(PySlice(dist_arrays, dist_start, dist_end)) = length
              /\ 0 <= ref_start /\ ref_start < ref_end /\ ref_end <= RefLen
              /\ 0 <= dist_start /\ dist_start < dist_end /\ dist_end <= DistLen

\* a negative lag at which the series overlap in part
C27_Witness ==
    /\ cpc = "loop"
    /\ RefLen >= 2
    /\ DistLen >= 2
    /\ offset < 0
    /\ offset < RangeStop(RefLen)
    /\ Min(RefLen, offset + DistLen) - Max(0, offset) < Min(RefLen, DistLen)

----------------------------------------------------------------------------
(* The frame count of a result without Native phase *)

----------------------------------------------------------------------------
(* The range of the Fine phase's offset *)

\* the Fine phase has just produced its offset
FineDone == pc = "phase3" /\ "fine" \in PhasesRun

\* C29 as stated: with n reference and m distorted signatures the Fine offset lies in
\* [fine_start - (m-1)/fine_fps, fine_start + (n-1)/fine_fps]; the distorted video is
\* sampled from its time 0 for at most 2 * refine_window seconds and fine_start >= 0,
\* so the Fine offset is never below -2 * refine_window
C29_Original ==
    FineDone =>
        /\ (Len(ref_sigs) >= 1 /\ Len(dist_sigs) >= 1) =>
              /\ current_offset * args.fine_fps >=
                     fine_start * args.fine_fps - (Len(dist_sigs) - 1) * TimeBaseDen
              /\ current_offset * args.fine_fps <=
                     fine_start * args.fine_fps + (Len(ref_sigs) - 1) * TimeBaseDen
        /\ fine_start >= 0
        /\ TimestampsWithin(dist_sigs, 0, 2 * args.refine_window)
        /\ current_offset >= -2 * args.refine_window

----------------------------------------------------------------------------
(* Empty series in the controller *)

\* one of the two series just correlated, or to be correlated, is empty
EmptySeries == ref_sigs = <<>> \/ dist_sigs = <<>>

\* the start of the reference window of the phase that ran last
WindowStart ==
    IF TerminalPhase = "native" THEN frame_start
    ELSE IF TerminalPhase = "fine" THEN fine_start
    ELSE args.start_offset

====
